---- MODULE Spec2Model ----
(***************************************************************************)
(* Token gateway and route-group dispatcher of                              *)
(* @nearform/simple-firebase-auth-backend.                                  *)
(*                                                                          *)
(* One Cloud Functions process: the closure variable `_fastify` of          *)
(* adaptFastify, the Fastify instances the process has constructed, and one *)
(* record per invocation of the onRequest handler.  An invocation is cut    *)
(* at its await points (createFastify, ready, verifyIdToken); everything    *)
(* between two awaits is one step.                                          *)
(*                                                                          *)
(* Strings that the code inspects (the Authorization header, the email, the *)
(* configured domain) are sequences of one-character strings, so that       *)
(* startsWith, split, toLowerCase and endsWith are computed, not assumed.   *)
(***************************************************************************)
EXTENDS Naturals, Sequences, FiniteSets

\* Number of invocations of the onRequest handler the process receives.
NumRequests == 2

\* Number of signIn()/signOut() calls made on one session.
NumCalls == 2

\* Number of times the provider's auth-state callback fires on one session.
MaxCallbacks == 2

\* Number of calls of the function fetchWithAuth returns.
NumFetches == 2

\* Number of initAuth calls an application makes.
MaxInitCalls == 2

\* Number of times the auth instance given to a mounted useAuth changes.
MaxAuthChanges == 2

\* Number of parts a request URL is put together from.
MaxUrlParts == 3

Requests == 1..NumRequests

----------------------------------------------------------------------------
(* JavaScript values *)

\* JS `undefined`: a value distinct from every string over one-character elements.
Undefined == <<"undefined">>

\* The empty string "".
EmptyString == <<>>

\* JS truthiness of an optional string: undefined and "" are falsy.
Truthy(s) == s # Undefined /\ s # EmptyString

\* String.prototype.startsWith
StartsWith(s, p) == Len(s) >= Len(p) /\ SubSeq(s, 1, Len(p)) = p

\* String.prototype.endsWith
EndsWith(s, p) == Len(s) >= Len(p) /\ SubSeq(s, Len(s) - Len(p) + 1, Len(s)) = p

\* toLowerCase on one character of the alphabet in use.
LowerChar(c) ==
  CASE c = "A" -> "a"
    [] c = "X" -> "x"
    [] c = "C" -> "c"
    [] c = "B" -> "b"
    [] OTHER -> c

\* String.prototype.toLowerCase
ToLowerCase(s) == [i \in 1..Len(s) |-> LowerChar(s[i])]

\* Position of the first occurrence of sep in s, 0 when there is none.
IndexOf(s, sep) ==
  LET hits == {i \in 1..(Len(s) + 1) :
                 i + Len(sep) - 1 <= Len(s) /\ SubSeq(s, i, i + Len(sep) - 1) = sep}
  IN IF hits = {} THEN 0 ELSE CHOOSE i \in hits : \A j \in hits : i <= j

\* String.prototype.split with a non-empty separator.
RECURSIVE Split(_, _)
Split(s, sep) ==
  LET i == IndexOf(s, sep)
  IN IF i = 0 THEN <<s>>
     ELSE <<SubSeq(s, 1, i - 1)>> \o Split(SubSeq(s, i + Len(sep), Len(s)), sep)

\* The literal "Bearer " (with its trailing space).
Bearer == <<"B", "e", "a", "r", "e", "r", " ">>

----------------------------------------------------------------------------
(* Inputs *)

\* Values of the googleAuthDomain option: not given, "", "x.c" and "X.c".
Domains == {Undefined, EmptyString, <<"x", ".", "c">>, <<"X", ".", "c">>}

\* Values of request.headers.authorization: absent, "", "Bearera" (no space),
\* "bearer a", " Bearer a", "Basic a"-like, "Bearer " (empty token), and
\* "Bearer <t>" for one-character tokens and one header repeating the prefix.
AuthorizationHeaders ==
  { Undefined,
    EmptyString,
    <<"B", "e", "a", "r", "e", "r", "a">>,
    <<"b", "e", "a", "r", "e", "r", " ", "a">>,
    <<" ">> \o Bearer \o <<"a">>,
    <<"B", "a", "s", "i", "c", " ", "a">>,
    Bearer,
    Bearer \o <<"a">>,
    Bearer \o <<"b">>,
    Bearer \o <<"c">>,
    Bearer \o <<"d">>,
    Bearer \o <<"e">>,
    Bearer \o <<"z">>,
    Bearer \o <<"a", " ">> \o Bearer \o <<"b">> }

\* The headers sent while the process cold-starts: absent, a token of the
\* configured domain, a token of another domain, a token the provider rejects.
ColdStartHeaders ==
  { Undefined, Bearer \o <<"a">>, Bearer \o <<"c">>, Bearer \o <<"z">> }

\* The googleAuthDomain option of the cold-starting process: not given or "x.c".
ColdStartDomains == {Undefined, <<"x", ".", "c">>}

\* Paths a request may ask for: the public route and the protected route.
Paths == {"/", "/user"}

\* A decoded ID token: the claims the handlers read.
DecodedIdToken(uid, email) == [uid |-> uid, email |-> email]

\* request.decodedToken before anything was attached (undefined).
NoDecodedToken == DecodedIdToken("", Undefined)

\* Errors, by message; expected/got carry the interpolated values.
\* They are plain Error objects: none carries a statusCode (0 here).
Error(message, expected, got) ==
  [message |-> message, expected |-> expected, got |-> got, statusCode |-> 0]
NoError == Error("", Undefined, Undefined)
MissingAuthorization == Error("No authorization header provided", Undefined, Undefined)
NoIdTokenProvided == Error("No idToken provided", Undefined, Undefined)
DomainMismatch(domain, email) == Error("Invalid email domain", <<"@">> \o domain, email)
ProviderError == Error("Decoding Firebase ID token failed", Undefined, Undefined)

\* The identity provider: the ID tokens it has issued and the claims each
\* verifies to.  Every other token string is rejected.
IssuedTokens ==
  { <<"a">>, <<"b">>, <<"c">>, <<"d">>, <<"e">> }

ClaimsOf(idToken) ==
  CASE idToken = <<"a">> -> DecodedIdToken("u1", <<"a", "@", "x", ".", "c">>)
    [] idToken = <<"b">> -> DecodedIdToken("u2", <<"B", "@", "X", ".", "C">>)
    [] idToken = <<"c">> -> DecodedIdToken("u3", <<"a", "@", "b", ".", "c">>)
    [] idToken = <<"d">> -> DecodedIdToken("u4", Undefined)
    [] idToken = <<"e">> -> DecodedIdToken("u5", <<"a", "@", "a", "x", ".", "c">>)
    [] OTHER -> NoDecodedToken

\* admin.auth().verifyIdToken(idToken): resolves with the claims or rejects.
VerifyIdToken(idToken) ==
  IF idToken \in IssuedTokens
    THEN [ok |-> TRUE, token |-> ClaimsOf(idToken), error |-> NoError]
    ELSE [ok |-> FALSE, token |-> NoDecodedToken, error |-> ProviderError]

----------------------------------------------------------------------------
(* auth.js *)

\* A guard that only tests that the header is present.
HasAuthorizationOnly(authorization) == Truthy(authorization)

\* getIdToken's guard, negated: the header is present and starts with "Bearer ".
HasBearerPrefix(authorization) ==
  Truthy(authorization) /\ StartsWith(authorization, Bearer)

\* getIdToken: authorization.split("Bearer ")[1], undefined when the split
\* yields a single part.
ExtractIdToken(authorization) ==
  LET parts == Split(authorization, Bearer)
  IN IF Len(parts) >= 2 THEN parts[2] ELSE Undefined

\* A suffix test that leaves out the "@".
EmailEndsWithBareDomain(email, domain) ==
  IF email = Undefined THEN FALSE ELSE EndsWith(ToLowerCase(email), domain)

\* isValidAuth's test of the email: email?.toLowerCase().endsWith(`@${domain}`).
\* An absent email short-circuits the chain to undefined, which is falsy.
EmailEndsWithDomain(email, domain) ==
  IF email = Undefined
    THEN FALSE
    ELSE EndsWith(ToLowerCase(email), <<"@">> \o domain)

\* An isValidAuth that tests the email whether or not a domain is configured.
IsValidAuthUnguarded(decodedToken, domain) ==
  IF decodedToken = NoDecodedToken
    THEN NoIdTokenProvided
    ELSE IF ~EmailEndsWithDomain(decodedToken.email, domain)
           THEN DomainMismatch(domain, decodedToken.email)
           ELSE NoError

\* isValidAuth: the error it throws, NoError when it returns.
IsValidAuth(decodedToken, domain) ==
  IF decodedToken = NoDecodedToken
    THEN NoIdTokenProvided
    ELSE IF Truthy(domain) /\ ~EmailEndsWithDomain(decodedToken.email, domain)
           THEN DomainMismatch(domain, decodedToken.email)
           ELSE NoError

\* A verifyAuthToken that swallows getIdToken's rejection.
ResumeIgnoringRejection(verified, domain) ==
  IF ~verified.ok
    THEN [error |-> NoError, token |-> verified.token, steps |-> <<>>]
    ELSE LET thrown == IsValidAuth(verified.token, domain)
         IN [error |-> thrown,
             token |-> IF thrown = NoError THEN verified.token ELSE NoDecodedToken,
             steps |-> <<"isValidAuth">>]

\* A verifyAuthToken that does not wait for getIdToken's outcome before it
\* calls isValidAuth.
ValidateRegardless(verified, domain) ==
  LET thrown == IsValidAuth(verified.token, domain)
  IN [error |-> thrown,
      token |-> IF thrown = NoError THEN verified.token ELSE NoDecodedToken,
      steps |-> <<"isValidAuth">>]

\* verifyAuthToken from the point where `await getIdToken(request)` settles
\* with `verified`: a rejection propagates; otherwise isValidAuth runs and the
\* decoded token is returned.  steps lists the calls made.
VerifyAuthTokenResume(verified, domain) ==
  IF ~verified.ok
    THEN [error |-> verified.error, token |-> NoDecodedToken, steps |-> <<>>]
    ELSE LET thrown == IsValidAuth(verified.token, domain)
         IN [error |-> thrown,
             token |-> IF thrown = NoError THEN verified.token ELSE NoDecodedToken,
             steps |-> <<"isValidAuth">>]

\* verifyAuthToken as a whole, for a request with the given header.
VerifyAuthToken(authorization, domain) ==
  IF ~HasBearerPrefix(authorization)
    THEN [error |-> MissingAuthorization, token |-> NoDecodedToken, steps |-> <<>>]
    ELSE VerifyAuthTokenResume(VerifyIdToken(ExtractIdToken(authorization)), domain)

----------------------------------------------------------------------------
(* index.js: adaptFastify *)

VARIABLES
  googleAuthDomain,  \* the googleAuthDomain option adaptFastify was called with
  fastify,           \* the closure variable _fastify: 0 (null) or an instance
  instances,         \* the Fastify instances constructed so far, in order
  req                \* one record per invocation of the onRequest handler

vars == <<googleAuthDomain, fastify, instances, req>>

\* The frontend session (use-auth.js, auth-context.js).
VARIABLES
  config,     \* the config argument of useAuth
  user,       \* useState: the signed-in user or null
  loading,    \* useState: an operation or the first callback is pending
  error,      \* useState: the last error message or null
  calls,      \* one record per signIn()/signOut() call, in order of invocation
  callbacks,  \* how often onAuthStateChanged's callback fired, and its last payload
  consumer    \* outcome of a useAuthContext() call in the current render

sessionVars == <<config, user, loading, error, calls, callbacks, consumer>>

\* JS null, for the user and the error message.
Null == "null"

\* A key that an object does not have.
Absent == ""

\* Keys of the custom-parameter objects in use.
ParamKeys == {"display", "hd", "prompt"}

\* The object {} as a custom-parameter mapping.
NoParams == [k \in ParamKeys |-> Absent]

\* googleAuthOptions not given: useAuth falls back to its default.
NoOptions == [given |-> FALSE, scopes |-> Undefined, customParameters |-> NoParams]

\* The config {} that useAuth and AuthProvider default to.
NoConfig == [googleAuthDomain |-> Absent, googleAuthOptions |-> NoOptions]

\* A signIn()/signOut() call not made yet.  outcome is what the awaited
\* provider call did ("resolved" or "thrown", with the thrown value);
\* settled is what the call's own promise did ("resolved" or "rejected").
NoThrown == [nullish |-> FALSE, code |-> "", message |-> ""]
InitialCall ==
  [pc |-> "idle", kind |-> "", scopes |-> <<>>, customParameters |-> NoParams,
   outcome |-> "", thrown |-> NoThrown, settled |-> ""]

\* What useAuth returns in one render.
AuthState(u, l, e, signedIn) ==
  [user |-> u, loading |-> l, error |-> e, isSignedIn |-> signedIn]

\* useAuthContext() not called in this render.
NoRead == [outcome |-> "", inside |-> FALSE, value |-> AuthState(Null, FALSE, Null, FALSE)]

\* useState initial values, for a session given `options`.
SessionStarts(options) ==
  /\ config = options
  /\ user = Null
  /\ loading = TRUE
  /\ error = Null
  /\ calls = [c \in 1..NumCalls |-> InitialCall]
  /\ callbacks = [count |-> 0, last |-> Null]
  /\ consumer = NoRead

\* The default scope of useAuth and of the package configuration.
DefaultScope == "https://www.googleapis.com/auth/userinfo.email"

\* Authenticated fetch (fetch.js).
VARIABLES
  fetches     \* one record per call of the function fetchWithAuth(user) returns

fetchVars == <<fetches>>

\* Header keys of the options objects in use; object keys are case-sensitive.
HeaderKeys == {"Authorization", "authorization", "Content-Type"}

\* A header key that a headers object does not have.
NoHeader == <<>>

\* A headers object with no keys, and options.headers undefined.
NoHeaders == [k \in HeaderKeys |-> NoHeader]

\* options = {}.  headers holds the headers fetch() reads from
\* options.headers, and headersInit says what options.headers is: a plain
\* object (or undefined), or an instance of the Fetch API's Headers class.
NoFetchOptions ==
  [method |-> Absent, headers |-> NoHeaders, headersInit |-> "object", body |-> Absent]

\* A call not made yet.  tokenRequests counts user.getIdToken() calls,
\* requests lists the fetch() calls issued, settled is what the call's
\* promise did and failure what it rejected with.
InitialFetch ==
  [pc |-> "idle", user |-> Null, url |-> "", options |-> NoFetchOptions,
   tokenRequests |-> 0, requests |-> <<>>, settled |-> "", failure |-> ""]

FetchStarts == fetches = [f \in 1..NumFetches |-> InitialFetch]

\* The package's modules (config.js, auth.js, index.js).
VARIABLES
  packageConfig,      \* config.js: let config
  authInstance,       \* auth.js: _auth
  emulatorConnected,  \* auth.js: _emulatorConnected
  connectCalls,       \* the URLs connectAuthEmulator was called with
  initCalls,          \* how often initAuth was called
  imported,           \* the package's modules have been evaluated
  hostname            \* window.location.hostname, or no window

packageVars ==
  <<packageConfig, authInstance, emulatorConnected, connectCalls, initCalls,
    imported, hostname>>

\* typeof window === "undefined"
NoWindow == "undefined"

\* config.js: the initial value of `config`.
ModuleConfig ==
  [googleAuthDomain |-> Null, emulatorAuthUrl |-> Null,
   googleAuthOptions |-> [scopes |-> <<DefaultScope>>, customParameters |-> NoParams]]

\* Before the package is imported, in an environment with this hostname.
PackageStarts(host) ==
  /\ packageConfig = ModuleConfig
  /\ authInstance = Null
  /\ emulatorConnected = FALSE
  /\ connectCalls = <<>>
  /\ initCalls = 0
  /\ imported = FALSE
  /\ hostname = host

\* The effect of useAuth (use-auth.js 53-61).
VARIABLES
  mounted,        \* the component that called useAuth is mounted
  subscriptions   \* one record per onAuthStateChanged subscription made

effectVars == <<mounted, subscriptions>>

\* A subscription just made on an auth instance: its unsubscribe function
\* has not been called.
Subscription(instance) == [auth |-> instance, unsubscribes |-> 0]

\* After the first render's effect has run.
EffectStarts ==
  /\ mounted = TRUE
  /\ subscriptions = <<Subscription("auth")>>

\* Fastify's rewriteUrl option (index.js 29-34).
VARIABLES
  functionsRewritePrefix,  \* the option of adaptFastify
  routed                   \* the last URL received and what it was rewritten to

rewriteVars == <<functionsRewritePrefix, routed>>

\* No request received yet.
NothingRouted == [url |-> Undefined, rewritten |-> Undefined]

\* A process configured with this prefix.
RewriteStarts(prefix) ==
  /\ functionsRewritePrefix = prefix
  /\ routed = NothingRouted

\* The default "/api".
DefaultRewritePrefix == <<"/", "a", "p", "i">>

\* A Fastify instance just constructed by createFastify: nothing registered.
\* creator is the invocation whose closure the registrations are made in.
NewInstance(r) ==
  [creator |-> r, publicPlugins |-> 0, protectedPlugins |-> 0,
   ready |-> FALSE, routes |-> {}, hooks |-> {}]

\* The root instance's scope.
RootScope == "root"

\* A hook added to the root instance instead.
HookOnRoot == RootScope

\* The encapsulation scope the auth preHandler is added to: the protected
\* plugin's own instance.
HookScope == "protected"

\* The routes and hooks an instance holds once its registered plugins have
\* been loaded: addNoAuthRoutes in its own scope, and the protected plugin
\* with its preHandler hook and addAuthRoutes.
LoadedRoutes(inst) ==
  (IF inst.publicPlugins > 0 THEN {[path |-> "/", scope |-> "public"]} ELSE {})
    \cup
  (IF inst.protectedPlugins > 0 THEN {[path |-> "/user", scope |-> "protected"]} ELSE {})

LoadedHooks(inst) == IF inst.protectedPlugins > 0 THEN {HookScope} ELSE {}

\* A hook that reaches no route.
HookAppliesNowhere(hooks, scope) == FALSE

\* A preHandler hook runs for the routes of the scope it was added to; one
\* added to the root instance runs for every route.
HookApplies(hooks, scope) == scope \in hooks \/ RootScope \in hooks

\* The `request` of the invocation in whose closure the hook was registered.
ClosureRequest(r, creator) == creator

\* The request object the preHandler verifies and attaches the token to: its
\* own parameter `request`, which shadows the outer handler's `request`.
HookRequest(r, creator) == r

\* Fastify's default error handler: the error's statusCode when it is an
\* HTTP error status, 500 otherwise.
ErrorStatus(thrown) == IF thrown.statusCode >= 400 THEN thrown.statusCode ELSE 500

InitialRequest ==
  [pc |-> "idle", local |-> 0, target |-> 0, path |-> "", matched |-> "",
   authorization |-> Undefined, idToken |-> Undefined,
   decodedToken |-> NoDecodedToken, error |-> NoError, status |-> 0,
   observedEmail |-> Undefined, log |-> <<>>]

Init ==
  /\ googleAuthDomain \in ColdStartDomains
  /\ fastify = 0
  /\ instances = <<>>
  /\ req = [r \in Requests |-> InitialRequest]
  /\ SessionStarts(NoConfig)
  /\ FetchStarts
  /\ PackageStarts(NoWindow)
  /\ EffectStarts
  /\ RewriteStarts(DefaultRewritePrefix)

\* The route an instance's router finds for a path, as a set: empty when
\* the path matches nothing (the instance answers 404).
RouteFor(inst, path) == {rt \in inst.routes : rt.path = path}

\* server.emit("request", ...) up to the first await inside Fastify, for
\* invocation r carrying `path` and `authorization`, on instance `inst`:
\*  - no route: 404;
\*  - a route without the hook: its handler runs;
\*  - a route with the hook: the preHandler calls verifyAuthToken, which calls
\*    getIdToken, which throws on a missing or malformed header and otherwise
\*    awaits verifyIdToken(idToken).
\* `seen` is the Authorization header of the request object the hook reads.
Dispatch(rec, target, inst, path, authorization, seen) ==
  LET base == [rec EXCEPT !.target = target, !.path = path,
                          !.authorization = authorization]
      found == RouteFor(inst, path)
      route == CHOOSE rt \in found : TRUE
  IN IF found = {}
       THEN [base EXCEPT !.pc = "done", !.matched = "none", !.status = 404]
     ELSE IF ~HookApplies(inst.hooks, route.scope)
       THEN [base EXCEPT !.pc = "done", !.matched = route.scope, !.status = 200,
                         !.log = <<"handler">>]
     ELSE IF ~HasBearerPrefix(seen)
       THEN [base EXCEPT !.pc = "done", !.matched = route.scope,
                         !.error = MissingAuthorization,
                         !.status = ErrorStatus(MissingAuthorization),
                         !.log = <<"preHandler", "getIdToken">>]
     ELSE [base EXCEPT !.pc = "verifyIdToken", !.matched = route.scope,
                       !.idToken = ExtractIdToken(seen),
                       !.log = <<"preHandler", "getIdToken", "verifyIdToken">>]

\* The Authorization header the hook reads when invocation r, carrying
\* `authorization`, is dispatched to an instance created by `creator`.
SeenBy(r, creator, authorization) ==
  IF HookRequest(r, creator) = r THEN authorization
  ELSE req[HookRequest(r, creator)].authorization

\* onRequest handler, cold: _fastify is null, so createFastify constructs a
\* Fastify instance and awaits fastify.after().
ColdStart(r) ==
  /\ req[r].pc = "idle"
  /\ fastify = 0
  /\ instances' = Append(instances, NewInstance(r))
  /\ req' = [req EXCEPT ![r].pc = "createFastify", ![r].local = Len(instances) + 1]
  /\ UNCHANGED <<googleAuthDomain, fastify, sessionVars, fetchVars, packageVars, effectVars, rewriteVars>>

\* onRequest handler, warm: _fastify is set, the request is emitted at once.
\* `headers` is the set the request's Authorization header is drawn from.
Invoke(r, headers) ==
  /\ req[r].pc = "idle"
  /\ fastify # 0
  /\ \E path \in Paths, authorization \in headers :
       req' = [req EXCEPT ![r] =
                 Dispatch(req[r], fastify, instances[fastify], path, authorization,
                          SeenBy(r, instances[fastify].creator, authorization))]
  /\ UNCHANGED <<googleAuthDomain, fastify, instances, sessionVars, fetchVars, packageVars, effectVars, rewriteVars>>

\* createFastify resolves: _fastify is assigned, the public routes and the
\* protected plugin are registered on it, and ready() is awaited.
CreateFastifyResolves(r) ==
  /\ req[r].pc = "createFastify"
  /\ fastify' = req[r].local
  /\ instances' = [instances EXCEPT
                     ![req[r].local].publicPlugins = @ + 1,
                     ![req[r].local].protectedPlugins = @ + 1]
  /\ req' = [req EXCEPT ![r].pc = "ready"]
  /\ UNCHANGED <<googleAuthDomain, sessionVars, fetchVars, packageVars, effectVars, rewriteVars>>

\* ready() resolves: the instance it was called on has loaded its plugins;
\* the handler goes on to emit the request on whatever _fastify is now.
ReadyResolves(r) ==
  /\ req[r].pc = "ready"
  /\ LET mine == req[r].local
         loaded == [instances EXCEPT
                      ![mine].ready = TRUE,
                      ![mine].routes = LoadedRoutes(instances[mine]),
                      ![mine].hooks = LoadedHooks(instances[mine])]
     IN /\ instances' = loaded
        /\ \E path \in Paths, authorization \in ColdStartHeaders :
             req' = [req EXCEPT ![r] =
                       Dispatch([req[r] EXCEPT !.local = 0], fastify, loaded[fastify], path, authorization,
                                SeenBy(r, loaded[fastify].creator, authorization))]
  /\ UNCHANGED <<googleAuthDomain, fastify, sessionVars, fetchVars, packageVars, effectVars, rewriteVars>>

\* verifyIdToken settles.  Rejected: getIdToken, verifyAuthToken and the hook
\* reject with the provider's error.  Resolved: verifyAuthToken runs
\* isValidAuth; if that throws the hook rejects, otherwise the hook attaches
\* the decoded token to its request and Fastify calls the route's handler,
\* which reads request.decodedToken.email.
VerifyIdTokenSettles(r) ==
  /\ req[r].pc = "verifyIdToken"
  /\ LET result == VerifyAuthTokenResume(VerifyIdToken(req[r].idToken), googleAuthDomain)
         who == HookRequest(r, instances[req[r].target].creator)
         attached == [req EXCEPT ![who].decodedToken = result.token]
     IN IF result.error # NoError
          THEN req' = [req EXCEPT ![r].pc = "done",
                                  ![r].error = result.error,
                                  ![r].status = ErrorStatus(result.error),
                                  ![r].log = @ \o result.steps]
          ELSE req' = [attached EXCEPT
                         ![r].pc = "done",
                         ![r].status = 200,
                         ![r].observedEmail = attached[r].decodedToken.email,
                         ![r].log = @ \o result.steps \o <<"attach", "handler">>]
  /\ UNCHANGED <<googleAuthDomain, fastify, instances, sessionVars, fetchVars, packageVars, effectVars, rewriteVars>>

WarmInvoke(r) == Invoke(r, ColdStartHeaders)

Next ==
  \E r \in Requests :
    \/ ColdStart(r)
    \/ WarmInvoke(r)
    \/ CreateFastifyResolves(r)
    \/ ReadyResolves(r)
    \/ VerifyIdTokenSettles(r)

\* A process from its start: _fastify is null and every invocation may be
\* the one that finds it so.
Spec == Init /\ [][Next]_vars

----------------------------------------------------------------------------
(* The gateway on a warm process *)

\* The state a process is in once its first invocation has completed
\* initialization: one instance, loaded and ready, assigned to _fastify.
WarmInstance ==
  LET registered == [NewInstance(0) EXCEPT !.publicPlugins = 1, !.protectedPlugins = 1]
  IN [registered EXCEPT !.ready = TRUE,
                        !.routes = LoadedRoutes(registered),
                        !.hooks = LoadedHooks(registered)]

GatewayInit ==
  /\ googleAuthDomain \in Domains
  /\ fastify = 1
  /\ instances = <<WarmInstance>>
  /\ req = [r \in Requests |-> InitialRequest]
  /\ SessionStarts(NoConfig)
  /\ FetchStarts
  /\ PackageStarts(NoWindow)
  /\ EffectStarts
  /\ RewriteStarts(DefaultRewritePrefix)

GatewayInvoke(r) == Invoke(r, AuthorizationHeaders)

GatewayNext ==
  \E r \in Requests :
    \/ GatewayInvoke(r)
    \/ VerifyIdTokenSettles(r)

\* Requests with any Authorization header and any configured domain, verified
\* concurrently by a warm process.
GatewaySpec == GatewayInit /\ [][GatewayNext]_vars

----------------------------------------------------------------------------
(* use-auth.js, auth-context.js: the session *)

\* useAuth's fallback for a missing googleAuthOptions.
DefaultGoogleAuthOptions ==
  [given |-> TRUE, scopes |-> <<DefaultScope>>, customParameters |-> NoParams]

\* Values of config.googleAuthOptions: scopes and a domain hint; custom
\* parameters without a scope list; scopes and a display mode.
ScopesAndHint ==
  [given |-> TRUE, scopes |-> <<DefaultScope, "profile">>,
   customParameters |-> [NoParams EXCEPT !["hd"] = "nearform.com"]]
ParametersOnly ==
  [given |-> TRUE, scopes |-> Undefined,
   customParameters |-> [NoParams EXCEPT !["prompt"] = "select_account"]]
ScopesAndDisplay ==
  [given |-> TRUE, scopes |-> <<DefaultScope>>,
   customParameters |-> [NoParams EXCEPT !["display"] = "page"]]

GoogleAuthOptions == {NoOptions, ScopesAndHint, ParametersOnly, ScopesAndDisplay}

\* Values of the config argument: {}; a domain restriction alone; and each
\* googleAuthOptions, the hinted one together with the restriction.
Configs ==
  { NoConfig,
    [googleAuthDomain |-> "nearform.com", googleAuthOptions |-> NoOptions],
    [googleAuthDomain |-> "nearform.com", googleAuthOptions |-> ScopesAndHint],
    [googleAuthDomain |-> Absent, googleAuthOptions |-> ParametersOnly],
    [googleAuthDomain |-> Absent, googleAuthOptions |-> ScopesAndDisplay] }

\* Users the provider may report.
Users == {"a@nearform.com", "b@other.com"}

\* An error object with the given code and message ("" when it has none).
ErrorObject(code, message) == [nullish |-> FALSE, code |-> code, message |-> message]

\* The values null and undefined, thrown.
Nullish == [nullish |-> TRUE, code |-> "", message |-> ""]

\* googleAuthOptions.scopes.forEach on a missing scopes list.
ScopesTypeError ==
  ErrorObject("", "Cannot read properties of undefined (reading 'forEach')")

\* What signInWithPopup or signOut may reject with.
ThrownValues ==
  { ErrorObject("auth/popup-closed-by-user", "Firebase: Error (auth/popup-closed-by-user)."),
    ErrorObject("auth/account-exists-with-different-credential", "Firebase: Error (auth/account-exists)."),
    ErrorObject("auth/account-exists-with-different-credential", ""),
    ErrorObject("auth/network-request-failed", "Firebase: Error (auth/network-request-failed)."),
    ErrorObject("auth/internal-error", ""),
    Nullish }

ConflictMessage ==
  "You have already signed up with a different auth provider for that email."

\* A merge in which the keys of a win.
SpreadKeepingFirst(a, b) == [k \in ParamKeys |-> IF a[k] # Absent THEN a[k] ELSE b[k]]

\* { ...a, ...b }: the keys of b override those of a.
Spread(a, b) == [k \in ParamKeys |-> IF b[k] # Absent THEN b[k] ELSE a[k]]

\* The message alone, with no fallback.
MessageOnly(message, fallback) == message

\* message || fallback
MessageOr(message, fallback) == IF message # "" THEN message ELSE fallback

\* A catch block that treats every code alike.
SignInCatchGeneric(thrown) ==
  IF thrown.nullish
    THEN [throws |-> TRUE, error |-> Null]
    ELSE [throws |-> FALSE, error |-> IF thrown.message # "" THEN thrown.message
                                      ELSE "Sign in failed"]

\* A catch block that passes a credential conflict's raw message on.
SignInCatchRawConflict(thrown) ==
  IF thrown.nullish
    THEN [throws |-> TRUE, error |-> Null]
  ELSE IF thrown.code = "auth/popup-closed-by-user"
    THEN [throws |-> FALSE, error |-> Null]
  ELSE [throws |-> FALSE, error |-> IF thrown.message # "" THEN thrown.message
                                    ELSE "Sign in failed"]

\* signIn's catch block for a thrown value: whether the block itself throws
\* (reading .code of null or undefined), and the message it passes to
\* setError otherwise.
SignInCatch(thrown) ==
  IF thrown.nullish
    THEN [throws |-> TRUE, error |-> Null]
  ELSE IF thrown.code = "auth/popup-closed-by-user"
    THEN [throws |-> FALSE, error |-> Null]
  ELSE IF thrown.code = "auth/account-exists-with-different-credential"
    THEN [throws |-> FALSE, error |-> ConflictMessage]
  ELSE [throws |-> FALSE, error |-> MessageOr(thrown.message, "Sign in failed")]

\* signOutUser with signIn's catch block.
SignOutCatchAsSignIn(thrown) ==
  IF thrown.nullish
    THEN [throws |-> TRUE, error |-> Null]
  ELSE IF thrown.code = "auth/popup-closed-by-user"
    THEN [throws |-> FALSE, error |-> Null]
  ELSE [throws |-> FALSE, error |-> IF thrown.message # "" THEN thrown.message
                                    ELSE "Sign in failed"]

\* signOutUser's catch block, likewise.
SignOutCatch(thrown) ==
  IF thrown.nullish
    THEN [throws |-> TRUE, error |-> Null]
    ELSE [throws |-> FALSE, error |-> MessageOr(thrown.message, "Sign out failed")]

\* The catch block of a call of the given kind.
Catch(kind, thrown) ==
  IF kind = "signIn" THEN SignInCatch(thrown) ELSE SignOutCatch(thrown)

\* isSignedIn that does not look at the user.
IsSignedInAlways(u) == TRUE

\* isSignedIn: !!user
IsSignedIn(u) == u # Null

\* The object useAuth returns in the current render.
UseAuthResult == AuthState(user, loading, error, IsSignedIn(user))

\* A start that leaves loading as it is.
BeginWithoutLoading == [loading |-> loading, error |-> Null]

\* A start that keeps the previous error.
BeginWithoutClearing == [loading |-> TRUE, error |-> error]

\* The values signIn's start gives loading and error: setLoading(true),
\* setError(null).
BeginOperation == [loading |-> TRUE, error |-> Null]

\* Calls that wait for the call in flight to finish.
NextCallSerialized(c) ==
  /\ calls[c].pc = "idle"
  /\ \A d \in 1..NumCalls : calls[d].pc # "awaiting"
  /\ IF c = 1 THEN TRUE ELSE calls[c - 1].pc # "idle"

\* Calls are numbered in the order they are made.
NextCall(c) ==
  /\ calls[c].pc = "idle"
  /\ IF c = 1 THEN TRUE ELSE calls[c - 1].pc # "idle"

\* Catch without the finally block.
CaughtKeepingLoading(c, kind, thrown) ==
  /\ error' = IF thrown.nullish THEN error ELSE Null
  /\ calls' = [calls EXCEPT ![c].pc = "done", ![c].kind = kind,
                            ![c].outcome = "thrown", ![c].thrown = thrown,
                            ![c].settled = "resolved"]
  /\ UNCHANGED loading

\* A call's catch and finally blocks run for `thrown`: the error the catch
\* sets (kept when the catch itself throws), loading false, and the call's
\* promise resolves, or rejects when the catch threw.
Caught(c, kind, thrown) ==
  LET handled == Catch(kind, thrown)
  IN /\ error' = IF handled.throws THEN error ELSE handled.error
     /\ loading' = FALSE
     /\ calls' = [calls EXCEPT ![c].pc = "done", ![c].kind = kind,
                               ![c].outcome = "thrown", ![c].thrown = thrown,
                               ![c].settled = IF handled.throws THEN "rejected"
                                              ELSE "resolved"]

\* config.googleAuthOptions || { scopes: [...], customParameters: {} }
GoogleAuthOptionsOf(cfg) ==
  IF cfg.googleAuthOptions.given THEN cfg.googleAuthOptions
                                 ELSE DefaultGoogleAuthOptions

\* signIn() up to `await signInWithPopup(auth, provider)`.  With a
\* googleAuthOptions that has no scopes, scopes.forEach throws inside the try
\* and the call ends in its catch and finally blocks without reaching the
\* provider.
SignIn(c) ==
  /\ NextCall(c)
  /\ LET options == GoogleAuthOptionsOf(config)
     IN IF options.scopes = Undefined
          THEN Caught(c, "signIn", ScopesTypeError)
          ELSE /\ loading' = BeginOperation.loading
               /\ error' = BeginOperation.error
               /\ calls' = [calls EXCEPT
                    ![c].pc = "awaiting", ![c].kind = "signIn",
                    ![c].scopes = options.scopes,
                    ![c].customParameters =
                       Spread([NoParams EXCEPT !["display"] = "popup"],
                              options.customParameters)]
  /\ consumer' = NoRead
  /\ UNCHANGED <<config, user, callbacks, vars, fetchVars, packageVars, effectVars, rewriteVars>>

\* signOutUser() up to `await signOut(auth)`.
SignOut(c) ==
  /\ NextCall(c)
  /\ loading' = BeginOperation.loading
  /\ error' = BeginOperation.error
  /\ calls' = [calls EXCEPT ![c].pc = "awaiting", ![c].kind = "signOut"]
  /\ consumer' = NoRead
  /\ UNCHANGED <<config, user, callbacks, vars, fetchVars, packageVars, effectVars, rewriteVars>>

\* A settlement in which success clears the error.
ProviderSettlesClearingError(c) ==
  /\ calls[c].pc = "awaiting"
  /\ \/ /\ loading' = FALSE
        /\ error' = Null
        /\ calls' = [calls EXCEPT ![c].pc = "done", ![c].outcome = "resolved",
                                  ![c].settled = "resolved"]
     \/ \E thrown \in ThrownValues : Caught(c, calls[c].kind, thrown)
  /\ consumer' = NoRead
  /\ UNCHANGED <<config, user, callbacks, vars, fetchVars, packageVars, effectVars, rewriteVars>>

\* A settlement in which a successful sign-out clears the user itself.
ProviderSettlesClearingUser(c) ==
  /\ calls[c].pc = "awaiting"
  /\ loading' = FALSE
  /\ calls' = [calls EXCEPT ![c].pc = "done", ![c].outcome = "resolved",
                            ![c].settled = "resolved"]
  /\ user' = IF calls[c].kind = "signOut" THEN Null ELSE user
  /\ consumer' = NoRead
  /\ UNCHANGED <<error, config, callbacks, vars, fetchVars, packageVars, effectVars, rewriteVars>>

\* The provider call a signIn()/signOut() awaits settles: it resolved, and
\* the finally block runs; or it rejected with a value, and the catch and
\* finally blocks run.
ProviderSettles(c) ==
  /\ calls[c].pc = "awaiting"
  /\ \/ /\ loading' = FALSE
        /\ calls' = [calls EXCEPT ![c].pc = "done", ![c].outcome = "resolved",
                                  ![c].settled = "resolved"]
        /\ UNCHANGED error
     \/ \E thrown \in ThrownValues : Caught(c, calls[c].kind, thrown)
  /\ consumer' = NoRead
  /\ UNCHANGED <<config, user, callbacks, vars, fetchVars, packageVars, effectVars, rewriteVars>>

\* The subscriptions whose unsubscribe function has not been called: the
\* provider calls back only these.
ActiveSubscriptions ==
  {i \in 1..Len(subscriptions) : subscriptions[i].unsubscribes = 0}

\* A callback that leaves the error in place.
AuthStateChangedKeepingError(payload) ==
  /\ ActiveSubscriptions # {}
  /\ callbacks.count < MaxCallbacks
  /\ user' = payload
  /\ loading' = FALSE
  /\ callbacks' = [count |-> callbacks.count + 1, last |-> payload]
  /\ consumer' = NoRead
  /\ UNCHANGED <<error, config, calls, vars, fetchVars, packageVars, effectVars, rewriteVars>>

\* The onAuthStateChanged callback fires with a user or null.
AuthStateChanged(payload) ==
  /\ ActiveSubscriptions # {}
  /\ callbacks.count < MaxCallbacks
  /\ user' = payload
  /\ loading' = FALSE
  /\ error' = Null
  /\ callbacks' = [count |-> callbacks.count + 1, last |-> payload]
  /\ consumer' = NoRead
  /\ UNCHANGED <<config, calls, vars, fetchVars, packageVars, effectVars, rewriteVars>>

\* A context that has a value everywhere.
UseContextAlwaysProvided(inside) == [isNull |-> FALSE, value |-> UseAuthResult]

\* The value useContext(AuthContext) gives a component: the AuthProvider's
\* authState inside one, the default null outside.
UseContext(inside) ==
  IF inside THEN [isNull |-> FALSE, value |-> UseAuthResult]
            ELSE [isNull |-> TRUE, value |-> NoRead.value]

\* useAuthContext() in a component inside or outside an AuthProvider.
UseAuthContext(inside) ==
  /\ consumer = NoRead
  /\ LET context == UseContext(inside)
     IN consumer' = [outcome |-> IF context.isNull THEN "threw" ELSE "returned",
                     inside |-> inside, value |-> context.value]
  /\ UNCHANGED <<config, user, loading, error, calls, callbacks, vars, fetchVars, packageVars, effectVars, rewriteVars>>

\* No gateway process.
NoBackend ==
  /\ googleAuthDomain = Undefined
  /\ fastify = 0
  /\ instances = <<>>
  /\ req = [r \in Requests |-> InitialRequest]

SessionInit ==
  /\ NoBackend
  /\ FetchStarts
  /\ PackageStarts("localhost")
  /\ \E options \in Configs : SessionStarts(options)
  /\ EffectStarts
  /\ RewriteStarts(DefaultRewritePrefix)

SessionNext ==
  \/ \E c \in 1..NumCalls : SignIn(c) \/ SignOut(c) \/ ProviderSettles(c)
  \/ \E payload \in Users \cup {Null} : AuthStateChanged(payload)
  \/ \E inside \in BOOLEAN : UseAuthContext(inside)

\* One mounted session: calls, provider settlements and provider callbacks
\* in any order.
allVars == <<vars, sessionVars, fetchVars, packageVars, effectVars, rewriteVars>>

SessionSpec == SessionInit /\ [][SessionNext]_allVars

\* The configurations under which calls are followed to their completion:
\* one whose signIn() reaches the provider and one whose signIn() fails
\* before it.
ProgressConfigs ==
  { NoConfig, [googleAuthDomain |-> Absent, googleAuthOptions |-> ParametersOnly] }

ProgressInit ==
  /\ NoBackend
  /\ FetchStarts
  /\ PackageStarts("localhost")
  /\ \E options \in ProgressConfigs : SessionStarts(options)
  /\ EffectStarts
  /\ RewriteStarts(DefaultRewritePrefix)

ProgressNext ==
  \/ \E c \in 1..NumCalls : SignIn(c) \/ SignOut(c) \/ ProviderSettles(c)
  \/ \E payload \in Users \cup {Null} : AuthStateChanged(payload)

\* The session's calls and callbacks when every provider call awaited
\* eventually settles.
SessionFairSpec ==
  /\ ProgressInit
  /\ [][ProgressNext]_allVars
  /\ \A c \in 1..NumCalls : WF_allVars(ProviderSettles(c))

----------------------------------------------------------------------------
(* use-auth.js: the effect's life cycle *)

\* The auth instances a component may be given.
AuthInstances == {"auth", "otherAuth"}

\* The effect's cleanup: unsubscribe() of the subscription the effect made,
\* which is the latest one.
Cleanup(subs) == [subs EXCEPT ![Len(subs)].unsubscribes = @ + 1]

\* An unmount whose cleanup does not run.
UnmountWithoutCleanup ==
  /\ mounted
  /\ mounted' = FALSE
  /\ consumer' = NoRead
  /\ UNCHANGED <<subscriptions, config, user, loading, error, calls, callbacks,
                 vars, fetchVars, packageVars, rewriteVars>>

\* The component unmounts: React runs the effect's cleanup.
Unmount ==
  /\ mounted
  /\ mounted' = FALSE
  /\ subscriptions' = Cleanup(subscriptions)
  /\ consumer' = NoRead
  /\ UNCHANGED <<config, user, loading, error, calls, callbacks,
                 vars, fetchVars, packageVars, rewriteVars>>

\* The component re-renders with another auth instance: the dependency
\* [auth] changed, so React runs the cleanup of the previous effect and then
\* the effect again, which subscribes on the new instance.
AuthInstanceChanges(instance) ==
  /\ mounted
  /\ Len(subscriptions) <= MaxAuthChanges
  /\ instance # subscriptions[Len(subscriptions)].auth
  /\ subscriptions' = Append(Cleanup(subscriptions), Subscription(instance))
  /\ consumer' = NoRead
  /\ UNCHANGED <<mounted, config, user, loading, error, calls, callbacks,
                 vars, fetchVars, packageVars, rewriteVars>>

LifecycleInit ==
  /\ NoBackend
  /\ FetchStarts
  /\ PackageStarts("localhost")
  /\ EffectStarts
  /\ RewriteStarts(DefaultRewritePrefix)
  /\ SessionStarts(NoConfig)

\* A mounted component's calls, the provider's callbacks while a
\* subscription is active, changes of the auth instance, and the unmount.
\* The calls of an unmounted component are not followed: React drops their
\* state updates.
LifecycleNext ==
  \/ \E c \in 1..NumCalls :
       mounted /\ (SignIn(c) \/ SignOut(c) \/ ProviderSettles(c))
  \/ \E payload \in Users \cup {Null} : AuthStateChanged(payload)
  \/ \E instance \in AuthInstances : AuthInstanceChanges(instance)
  \/ Unmount

LifecycleSpec == LifecycleInit /\ [][LifecycleNext]_allVars

----------------------------------------------------------------------------
(* index.js: createFastify's rewriteUrl *)

\* The values of functionsRewritePrefix: the default and one a caller gives.
RewritePrefixes == {DefaultRewritePrefix, <<"/", "v", "1">>}

\* The pieces request urls are made of.
UrlPieces ==
  { <<"/">>, <<"x">>, <<"?", "q">>,
    <<"/", "a", "p", "i">>, <<"/", "v", "1">>, <<"/", "u", "s", "e", "r">> }

RECURSIVE UrlsOf(_)
UrlsOf(parts) ==
  IF parts = 1 THEN UrlPieces
  ELSE LET shorter == UrlsOf(parts - 1)
       IN shorter \cup {u \o piece : u \in shorter, piece \in UrlPieces}

\* The urls of incoming requests: origin-form targets, which start with `/`.
RequestUrls == {u \in UrlsOf(MaxUrlParts) : u[1] = "/"}

\* String.prototype.replace with a string pattern: the first occurrence of
\* the pattern is replaced, and a string without it is returned as it is.
Replace(s, pattern, replacement) ==
  LET i == IndexOf(s, pattern)
  IN IF i = 0 THEN s
     ELSE SubSeq(s, 1, i - 1) \o replacement \o SubSeq(s, i + Len(pattern), Len(s))

\* rewriteUrl: ({ url }) => ...
RewriteUrl(url, prefix) ==
  IF StartsWith(url, prefix)
    THEN Replace(url, prefix, EmptyString)
    ELSE url

\* Fastify rewrites the url of an incoming request before routing it.
RewriteRequest(url) ==
  /\ routed' = [url |-> url, rewritten |-> RewriteUrl(url, functionsRewritePrefix)]
  /\ UNCHANGED <<vars, sessionVars, fetchVars, packageVars, effectVars,
                 functionsRewritePrefix>>

RewriteInit ==
  /\ NoBackend
  /\ SessionStarts(NoConfig)
  /\ FetchStarts
  /\ PackageStarts("localhost")
  /\ EffectStarts
  /\ \E prefix \in RewritePrefixes : RewriteStarts(prefix)

RewriteNext == \E url \in RequestUrls : RewriteRequest(url)

\* Requests routed by an instance created with one of the prefixes.
RewriteSpec == RewriteInit /\ [][RewriteNext]_allVars

----------------------------------------------------------------------------
(* fetch.js: fetchWithAuth *)

Fetches == 1..NumFetches

\* The user handles a caller passes: null, or a signed-in user.
FetchUsers == {Null, "a@nearform.com"}

Urls == {"/api/data", "/api/user"}

\* The options a caller passes: none; a POST with a content type; headers
\* with an Authorization key; headers with an authorization key; a POST
\* whose content type is given as new Headers({ 'Content-Type': ... }).
FetchOptions ==
  { NoFetchOptions,
    [method |-> "POST", body |-> "{}", headersInit |-> "object",
     headers |-> [NoHeaders EXCEPT !["Content-Type"] = <<"application/json">>]],
    [method |-> Absent, body |-> Absent, headersInit |-> "object",
     headers |-> [NoHeaders EXCEPT !["Authorization"] = <<"Basic ", "dXNlcg==">>]],
    [method |-> Absent, body |-> Absent, headersInit |-> "object",
     headers |-> [NoHeaders EXCEPT !["authorization"] = <<"Basic ", "dXNlcg==">>]],
    [method |-> "POST", body |-> "{}", headersInit |-> "Headers",
     headers |-> [NoHeaders EXCEPT !["Content-Type"] = <<"application/json">>]] }

\* What user.getIdToken() may resolve to, and reject with.
IdTokens == {"token-1", "token-2"}
TokenFailures == {"auth/network-request-failed", "auth/user-token-expired"}

\* `Bearer ${idToken}`
BearerValue(idToken) == <<"Bearer ", idToken>>

\* { ...a, ...b } on headers objects: the keys of b override those of a.
SpreadHeaders(a, b) == [k \in HeaderKeys |-> IF b[k] # NoHeader THEN b[k] ELSE a[k]]

\* The own enumerable properties of options.headers, which are what a
\* spread copies: the keys of a plain object, and none of a Headers
\* instance, which keeps its entries in an internal list.
OwnProperties(options) ==
  IF options.headersInit = "Headers" THEN NoHeaders ELSE options.headers

\* { ...options, headers: { ...options.headers, Authorization: `Bearer ...` } }
WithAuthorization(options, idToken) ==
  [options EXCEPT
     !.headers =
        SpreadHeaders(OwnProperties(options),
                      [NoHeaders EXCEPT !["Authorization"] = BearerValue(idToken)]),
     !.headersInit = "object"]

\* The arguments of one fetch() call.
Request(url, options) == [url |-> url, options |-> options]

\* A test that takes every handle for a user.
HasUserAlways(u) == TRUE

\* The negation of `!user`.
HasUser(u) == u # Null

\* Calls are numbered in the order they are made.
NextFetch(f) ==
  /\ fetches[f].pc = "idle"
  /\ IF f = 1 THEN TRUE ELSE fetches[f - 1].pc # "idle"

\* A fetchWithAuth that keeps the token of the call before it: when that
\* call sent a Bearer token, the request goes out with it and the user is
\* not asked.
FetchWithAuthCached(f, u, url, options) ==
  /\ NextFetch(f)
  /\ LET cached == IF f = 1 \/ ~HasUser(u) THEN <<>>
                   ELSE IF fetches[f - 1].requests = <<>> THEN <<>>
                   ELSE fetches[f - 1].requests[1].options.headers["Authorization"]
     IN fetches' = [fetches EXCEPT ![f] =
          IF ~HasUser(u)
            THEN [@ EXCEPT !.pc = "fetching", !.user = u, !.url = url,
                           !.options = options,
                           !.requests = Append(@, Request(url, options))]
            ELSE IF Len(cached) = 2 /\ cached[1] = "Bearer "
              THEN [@ EXCEPT !.pc = "fetching", !.user = u, !.url = url,
                             !.options = options,
                             !.requests = Append(@, Request(url,
                                            WithAuthorization(options, cached[2])))]
              ELSE [@ EXCEPT !.pc = "awaiting token", !.user = u, !.url = url,
                             !.options = options, !.tokenRequests = @ + 1]]
  /\ UNCHANGED <<vars, sessionVars, packageVars, effectVars, rewriteVars>>

\* fetchWithAuth(u)(url, options) up to its first await or its return:
\* without a user it returns fetch(url, options); with one it asks the
\* user for an ID token.
FetchWithAuth(f, u, url, options) ==
  /\ NextFetch(f)
  /\ fetches' = [fetches EXCEPT ![f] =
       IF HasUser(u)
         THEN [@ EXCEPT !.pc = "awaiting token", !.user = u, !.url = url,
                        !.options = options, !.tokenRequests = @ + 1]
         ELSE [@ EXCEPT !.pc = "fetching", !.user = u, !.url = url,
                        !.options = options,
                        !.requests = Append(@, Request(url, options))]]
  /\ UNCHANGED <<vars, sessionVars, packageVars, effectVars, rewriteVars>>

\* user.getIdToken() resolves: the request is issued with the header added.
GetIdTokenResolves(f, idToken) ==
  /\ fetches[f].pc = "awaiting token"
  /\ fetches' = [fetches EXCEPT ![f].pc = "fetching",
       ![f].requests =
          Append(@, Request(fetches[f].url,
                            WithAuthorization(fetches[f].options, idToken)))]
  /\ UNCHANGED <<vars, sessionVars, packageVars, effectVars, rewriteVars>>

\* A rejection after which the request is issued all the same.
GetIdTokenRejectsThenFetches(f, failure) ==
  /\ fetches[f].pc = "awaiting token"
  /\ fetches' = [fetches EXCEPT ![f].pc = "fetching",
       ![f].requests = Append(@, Request(fetches[f].url, fetches[f].options))]
  /\ UNCHANGED <<vars, sessionVars, packageVars, effectVars, rewriteVars>>

\* user.getIdToken() rejects: the await throws and the call's promise
\* rejects with the same value.
GetIdTokenRejects(f, failure) ==
  /\ fetches[f].pc = "awaiting token"
  /\ fetches' = [fetches EXCEPT ![f].pc = "done", ![f].settled = "rejected",
                                ![f].failure = failure]
  /\ UNCHANGED <<vars, sessionVars, packageVars, effectVars, rewriteVars>>

\* The fetch() the call returned settles, and the call's promise with it.
FetchSettles(f, ok) ==
  /\ fetches[f].pc = "fetching"
  /\ fetches' = [fetches EXCEPT ![f].pc = "done",
       ![f].settled = IF ok THEN "resolved" ELSE "rejected",
       ![f].failure = IF ok THEN "" ELSE "Failed to fetch"]
  /\ UNCHANGED <<vars, sessionVars, packageVars, effectVars, rewriteVars>>

FetchInit ==
  /\ NoBackend
  /\ SessionStarts(NoConfig)
  /\ PackageStarts("localhost")
  /\ FetchStarts
  /\ EffectStarts
  /\ RewriteStarts(DefaultRewritePrefix)

FetchNext ==
  \/ \E f \in Fetches, u \in FetchUsers, url \in Urls, options \in FetchOptions :
       FetchWithAuth(f, u, url, options)
  \/ \E f \in Fetches, idToken \in IdTokens : GetIdTokenResolves(f, idToken)
  \/ \E f \in Fetches, failure \in TokenFailures : GetIdTokenRejects(f, failure)
  \/ \E f \in Fetches, ok \in BOOLEAN : FetchSettles(f, ok)

\* Calls of authenticated fetch functions, overlapping freely.
FetchSpec == FetchInit /\ [][FetchNext]_allVars

----------------------------------------------------------------------------
(* config.js, auth.js, index.js: the package's modules *)

\* window.location.hostname, or no window at all.
Hostnames == {NoWindow, "localhost", "app.example.com"}

EmulatorUrls == {"http://127.0.0.1:9099", "http://localhost:9099"}

\* The options an application passes to initAuth.
InitAuthOptions ==
  [googleAuthDomain : {Absent, "nearform.com"},
   emulatorAuthUrl : {Absent} \cup EmulatorUrls,
   googleAuthOptions : GoogleAuthOptions]

\* value || null
OrNull(value) == IF value # Absent THEN value ELSE Null

\* initAuth's new config for `options`.
ConfigFor(options) ==
  [googleAuthDomain |-> OrNull(options.googleAuthDomain),
   emulatorAuthUrl |-> OrNull(options.emulatorAuthUrl),
   googleAuthOptions |->
     [scopes |-> IF options.googleAuthOptions.given
                    /\ options.googleAuthOptions.scopes # Undefined
                   THEN options.googleAuthOptions.scopes
                   ELSE <<DefaultScope>>,
      customParameters |-> IF options.googleAuthOptions.given
                             THEN options.googleAuthOptions.customParameters
                             ELSE NoParams]]

\* getConfig()
GetConfig == packageConfig

\* The condition under which auth.js connects the emulator.
ConnectsEmulator(cfg) ==
  /\ cfg.emulatorAuthUrl # Null
  /\ hostname # NoWindow
  /\ hostname = "localhost"
  /\ ~emulatorConnected

\* The application imports the package: index.js evaluates config.js and
\* then auth.js, whose `auth` initializer runs once, before any code of the
\* importing module.
ImportPackage ==
  /\ ~imported
  /\ imported' = TRUE
  /\ packageConfig' = ModuleConfig
  /\ IF authInstance = Null
       THEN /\ authInstance' = "auth"
            /\ IF ConnectsEmulator(ModuleConfig)
                 THEN /\ connectCalls' = Append(connectCalls, ModuleConfig.emulatorAuthUrl)
                      /\ emulatorConnected' = TRUE
                 ELSE UNCHANGED <<connectCalls, emulatorConnected>>
       ELSE UNCHANGED <<authInstance, connectCalls, emulatorConnected>>
  /\ UNCHANGED <<initCalls, hostname, vars, sessionVars, fetchVars, effectVars, rewriteVars>>

\* initAuth(options), which the application imports from the package.
InitAuth(options) ==
  /\ imported
  /\ initCalls < MaxInitCalls
  /\ initCalls' = initCalls + 1
  /\ packageConfig' = ConfigFor(options)
  /\ UNCHANGED <<authInstance, emulatorConnected, connectCalls, imported,
                 hostname, vars, sessionVars, fetchVars, effectVars, rewriteVars>>

PackageInit ==
  /\ NoBackend
  /\ SessionStarts(NoConfig)
  /\ FetchStarts
  /\ \E host \in Hostnames : PackageStarts(host)
  /\ EffectStarts
  /\ RewriteStarts(DefaultRewritePrefix)

PackageNext ==
  \/ ImportPackage
  \/ \E options \in InitAuthOptions : InitAuth(options)

\* One page load: the package is imported, then configured.
PackageSpec == PackageInit /\ [][PackageNext]_allVars

----------------------------------------------------------------------------
(* Properties *)

\* The call `e` was made while serving invocation r.
Logged(r, e) == \E i \in 1..Len(req[r].log) : req[r].log[i] = e

\* Position of the first record of `e` in r's log, 0 when there is none.
FirstAt(r, e) ==
  IF Logged(r, e)
    THEN CHOOSE i \in 1..Len(req[r].log) :
           req[r].log[i] = e /\ \A j \in 1..(i - 1) : req[r].log[j] # e
    ELSE 0

\* h has the form `Bearer <token>`: the literal prefix followed by a token.
IsBearerForm(h) ==
  /\ h # Undefined
  /\ \E k \in 0..Len(h) : h = Bearer \o SubSeq(h, Len(h) - k + 1, Len(h))

\* s ends with suffix when letter case is ignored on both sides.
EndsWithIgnoringCase(s, suffix) ==
  /\ s # Undefined
  /\ Len(s) >= Len(suffix)
  /\ \A i \in 1..Len(suffix) :
       LowerChar(s[Len(s) - Len(suffix) + i]) = LowerChar(suffix[i])

\* A domain policy is configured.
PolicyConfigured == Truthy(googleAuthDomain)

\* The provider verified r's token: what it resolved with.
ProviderVerified(r) == Logged(r, "verifyIdToken") /\ VerifyIdToken(req[r].idToken).ok
VerifiedEmail(r) == VerifyIdToken(req[r].idToken).token.email

\* C1: for every request that reaches a route of the protected group, the
\* auth preHandler runs before the route's handler; the handler runs only if
\* verifyAuthToken succeeded for that request's own header, and never when
\* verification failed.
C1_PreHandlerGatesHandler ==
  \A r \in Requests :
    req[r].matched = "protected" =>
      /\ FirstAt(r, "preHandler") = 1
      /\ Logged(r, "handler") =>
           /\ FirstAt(r, "preHandler") < FirstAt(r, "handler")
           /\ VerifyAuthToken(req[r].authorization, googleAuthDomain).error = NoError
           /\ req[r].error = NoError
      /\ req[r].error # NoError => ~Logged(r, "handler")
      /\ (req[r].pc = "done"
            /\ VerifyAuthToken(req[r].authorization, googleAuthDomain).error # NoError)
           => ~Logged(r, "handler")

\* Two protected requests are done: one was let through to its handler, the
\* other was stopped by the preHandler.
C1_Witness ==
  \E r1, r2 \in Requests :
    /\ req[r1].matched = "protected" /\ Logged(r1, "handler")
    /\ req[r2].matched = "protected" /\ req[r2].pc = "done"
    /\ req[r2].error # NoError /\ ~Logged(r2, "handler")

\* C2: getIdToken fails with "No authorization header provided" for every
\* request whose Authorization header is absent or is not the literal prefix
\* `Bearer ` followed by a token; the provider is not asked.
C2_MissingAuthorization ==
  \A r \in Requests :
    (Logged(r, "getIdToken") /\ ~IsBearerForm(req[r].authorization)) =>
      /\ req[r].error = MissingAuthorization
      /\ ~Logged(r, "verifyIdToken")
      /\ req[r].idToken = Undefined

\* getIdToken has rejected an absent header and a present one that lacks the
\* prefix.
C2_Witness ==
  \E r1, r2 \in Requests :
    /\ req[r1].authorization = Undefined /\ req[r1].error = MissingAuthorization
    /\ Truthy(req[r2].authorization) /\ ~IsBearerForm(req[r2].authorization)
    /\ req[r2].error = MissingAuthorization

\* C3: with a domain policy configured, verification fails with the
\* DomainMismatch error for every verified token whose email, letter case
\* ignored, does not end with `@<googleAuthDomain>`, a token without email
\* included; the handler does not run.
C3_DomainMismatch ==
  \A r \in Requests :
    ( /\ req[r].pc = "done"
      /\ ProviderVerified(r)
      /\ PolicyConfigured
      /\ ~EndsWithIgnoringCase(VerifiedEmail(r), <<"@">> \o googleAuthDomain) ) =>
      /\ req[r].error = DomainMismatch(googleAuthDomain, VerifiedEmail(r))
      /\ ~Logged(r, "handler")
      /\ req[r].decodedToken = NoDecodedToken

\* A token without email and a token of another domain were both refused.
C3_Witness ==
  \E r1, r2 \in Requests :
    /\ PolicyConfigured
    /\ ProviderVerified(r1) /\ VerifiedEmail(r1) = Undefined
    /\ req[r1].error = DomainMismatch(googleAuthDomain, Undefined)
    /\ ProviderVerified(r2) /\ VerifiedEmail(r2) # Undefined
    /\ req[r2].error = DomainMismatch(googleAuthDomain, VerifiedEmail(r2))

\* C4: with a domain policy configured, every verified token whose email ends
\* with `@<googleAuthDomain>` when letter case is ignored on both sides passes
\* isValidAuth without error.
C4_CaseInsensitiveBothSides ==
  \A r \in Requests :
    ( /\ req[r].pc = "done"
      /\ ProviderVerified(r)
      /\ PolicyConfigured
      /\ EndsWithIgnoringCase(VerifiedEmail(r), <<"@">> \o googleAuthDomain) ) =>
      /\ req[r].error = NoError
      /\ Logged(r, "handler")

\* C5: with no domain configured, every token the provider verifies passes
\* verifyAuthToken whatever its email, an absent email included, and the
\* protected handler observes that token's email.
C5_NoPolicyPasses ==
  \A r \in Requests :
    ( /\ req[r].pc = "done"
      /\ ProviderVerified(r)
      /\ googleAuthDomain = Undefined ) =>
      /\ req[r].error = NoError
      /\ Logged(r, "handler")
      /\ req[r].status = 200
      /\ req[r].decodedToken = VerifyIdToken(req[r].idToken).token
      /\ req[r].observedEmail = VerifiedEmail(r)

\* With no domain configured, handlers have run for a token without email
\* and for a token with one.
C5_Witness ==
  \E r1, r2 \in Requests :
    /\ googleAuthDomain = Undefined
    /\ Logged(r1, "handler") /\ ProviderVerified(r1) /\ VerifiedEmail(r1) = Undefined
    /\ Logged(r2, "handler") /\ ProviderVerified(r2)
    /\ req[r2].observedEmail = <<"a", "@", "b", ".", "c">>

\* C6: under any interleaving of protected requests, request.decodedToken is
\* set only by a successful verification of that request's own Authorization
\* header, and it is the token a handler of that request reads.
C6_TokenIsRequestScoped ==
  \A r \in Requests :
    /\ req[r].decodedToken # NoDecodedToken =>
         /\ req[r].matched = "protected"
         /\ VerifyAuthToken(req[r].authorization, googleAuthDomain).error = NoError
         /\ req[r].decodedToken
              = VerifyAuthToken(req[r].authorization, googleAuthDomain).token
    /\ (req[r].matched = "protected" /\ Logged(r, "handler")) =>
         /\ req[r].decodedToken # NoDecodedToken
         /\ req[r].observedEmail = req[r].decodedToken.email

\* One request's handler has read its token while another request, carrying
\* a different token, is still being verified.
C6_Witness ==
  \E r1, r2 \in Requests :
    /\ req[r1].matched = "protected" /\ Logged(r1, "handler")
    /\ req[r1].decodedToken # NoDecodedToken
    /\ req[r2].pc = "verifyIdToken"
    /\ req[r2].idToken # req[r1].idToken
    /\ VerifyIdToken(req[r2].idToken).ok

\* C7: every MissingAuthorization failure raised in the protected group's
\* preHandler is answered with HTTP 401, and every DomainMismatch failure with
\* 401 or 403.
C7_FailuresAnswered401 ==
  \A r \in Requests :
    /\ req[r].error = MissingAuthorization => req[r].status = 401
    /\ req[r].error.message = "Invalid email domain" => req[r].status \in {401, 403}

\* C8: under any interleaving of the invocations of one process, the Fastify
\* instance is constructed once and the public routes, the protected routes
\* and the auth preHandler are registered once.
C8_OneInstance ==
  /\ Len(instances) <= 1
  /\ \A i \in 1..Len(instances) :
       instances[i].publicPlugins <= 1 /\ instances[i].protectedPlugins <= 1

\* C9: a request that reaches a route of the public group is never subject to
\* the auth preHandler: its handler runs, with or without an Authorization
\* header, and neither token verification nor the domain policy is applied.
C9_PublicRoutesUnguarded ==
  \A r \in Requests :
    req[r].matched = "public" =>
      /\ req[r].log = <<"handler">>
      /\ req[r].error = NoError
      /\ req[r].status = 200
      /\ req[r].idToken = Undefined
      /\ req[r].decodedToken = NoDecodedToken

\* Public handlers have run for a request without Authorization header and
\* for one with a header the provider would reject, under a domain policy.
C9_Witness ==
  \E r1, r2 \in Requests :
    /\ PolicyConfigured
    /\ req[r1].matched = "public" /\ req[r1].authorization = Undefined
    /\ req[r1].status = 200
    /\ req[r2].matched = "public" /\ req[r2].authorization = Bearer \o <<"z">>
    /\ req[r2].status = 200

\* C10: verifyAuthToken extracts and verifies the token first and checks the
\* domain policy second: isValidAuth is never called when extraction or
\* verification fails, and on success the token returned (and attached) is
\* exactly the one the provider's verification produced.
C10_VerifyThenPolicy ==
  \A r \in Requests :
    /\ Logged(r, "isValidAuth") =>
         /\ FirstAt(r, "getIdToken") < FirstAt(r, "verifyIdToken")
         /\ FirstAt(r, "verifyIdToken") < FirstAt(r, "isValidAuth")
         /\ FirstAt(r, "verifyIdToken") > 0
         /\ ProviderVerified(r)
    /\ (req[r].pc = "done" /\ Logged(r, "getIdToken") /\ ~ProviderVerified(r)) =>
         /\ ~Logged(r, "isValidAuth")
         /\ req[r].error \in {MissingAuthorization, ProviderError}
    /\ Logged(r, "attach") =>
         req[r].decodedToken = VerifyIdToken(req[r].idToken).token

\* Under a domain policy: one request failed in verification without the
\* policy being evaluated, another passed both and got its token.
C10_Witness ==
  \E r1, r2 \in Requests :
    /\ PolicyConfigured
    /\ req[r1].error = ProviderError /\ ~Logged(r1, "isValidAuth")
    /\ Logged(r2, "attach") /\ Logged(r2, "isValidAuth")
    /\ req[r2].decodedToken = VerifyIdToken(req[r2].idToken).token

----------------------------------------------------------------------------
(* Properties of the session *)

Calls == 1..NumCalls

\* Call c's awaited provider call settles in this step.
Completes(c) == calls[c].pc = "awaiting" /\ calls'[c].pc = "done"

\* Call c of the given kind completes in this step with an error object
\* thrown by the provider.
CompletesWithError(c, kind) ==
  /\ Completes(c)
  /\ calls[c].kind = kind
  /\ calls'[c].outcome = "thrown"
  /\ ~calls'[c].thrown.nullish

\* Call c is done, after the provider threw an error object with this code.
FailedWith(c, kind, code) ==
  /\ calls[c].pc = "done"
  /\ calls[c].kind = kind
  /\ calls[c].outcome = "thrown"
  /\ ~calls[c].thrown.nullish
  /\ calls[c].thrown.code = code

SpecialCodes ==
  {"auth/popup-closed-by-user", "auth/account-exists-with-different-credential"}

\* C11: signIn() and signOut() never reject: whatever the provider call does
\* and whatever the configuration, the promise the call returned resolves.
C11_NeverRejects ==
  \A c \in Calls : calls[c].settled # "rejected"

\* C12: when a signIn() completes because the provider reported
\* auth/popup-closed-by-user, error is null and loading is false.
C12_PopupClosed ==
  [][\A c \in Calls :
       (CompletesWithError(c, "signIn")
          /\ calls'[c].thrown.code = "auth/popup-closed-by-user")
       => (error' = Null /\ loading' = FALSE)]_<<vars, sessionVars>>

C12_Witness ==
  \E c \in Calls :
    /\ FailedWith(c, "signIn", "auth/popup-closed-by-user")
    /\ error = Null
    /\ ~loading

\* C13: when a signIn() completes because the provider reported
\* auth/account-exists-with-different-credential, error is the fixed conflict
\* message whatever the provider's message was, and loading is false.
C13_CredentialConflict ==
  [][\A c \in Calls :
       (CompletesWithError(c, "signIn")
          /\ calls'[c].thrown.code = "auth/account-exists-with-different-credential")
       => (error' = ConflictMessage /\ loading' = FALSE)]_<<vars, sessionVars>>

C13_Witness ==
  \E c \in Calls :
    /\ FailedWith(c, "signIn", "auth/account-exists-with-different-credential")
    /\ calls[c].thrown.message \notin {"", ConflictMessage}
    /\ error = ConflictMessage
    /\ ~loading

\* C14: when a signIn() completes with any other error, error is the
\* provider's message, or "Sign in failed" when it has none, and loading is
\* false.
C14_OtherErrors ==
  [][\A c \in Calls :
       (CompletesWithError(c, "signIn") /\ calls'[c].thrown.code \notin SpecialCodes)
       => /\ loading' = FALSE
          /\ IF calls'[c].thrown.message # ""
               THEN error' = calls'[c].thrown.message
               ELSE error' = "Sign in failed"]_<<vars, sessionVars>>

C14_Witness ==
  \E c \in Calls :
    /\ FailedWith(c, "signIn", "auth/internal-error")
    /\ calls[c].thrown.message = ""
    /\ error = "Sign in failed"
    /\ ~loading

C16_CallbackSetsSession ==
  [][callbacks'.count > callbacks.count
       => /\ user' = callbacks'.last
          /\ loading' = FALSE
          /\ error' = Null
          /\ callbacks'.last \in Users => UseAuthResult'.isSignedIn]_<<vars, sessionVars>>

\* A callback delivered a user while an operation was in flight.
C16_Witness ==
  /\ callbacks.count > 0
  /\ user \in Users
  /\ UseAuthResult.isSignedIn
  /\ ~loading
  /\ error = Null
  /\ \E c \in Calls : calls[c].pc = "awaiting"

\* C17: before the first onAuthStateChanged callback has fired, loading is
\* true: no signIn() or signOut() makes it false.
C17_InitializingUntilCallback ==
  callbacks.count = 0 => loading

\* C18: when a signIn() or signOut() begins and issues its provider call,
\* loading is true and error is null.
C18_BeginClears ==
  [][\A c \in Calls :
       (calls[c].pc = "idle" /\ calls'[c].pc = "awaiting")
       => (loading' = TRUE /\ error' = Null)]_<<vars, sessionVars>>

\* A first signIn() failed at once on its configuration and set error; a
\* signOut() then began, with no callback in between.
C18_Witness ==
  /\ NumCalls >= 2
  /\ callbacks.count = 0
  /\ calls[1].pc = "done"
  /\ calls[1].thrown = ScopesTypeError
  /\ calls[2].pc = "awaiting"
  /\ loading
  /\ error = Null

\* C19: isSignedIn is true exactly when a user is present.
C19_SignedInIffUser ==
  UseAuthResult.isSignedIn <=> user \in Users

C19_Witness ==
  /\ user \in Users
  /\ UseAuthResult.isSignedIn
  /\ callbacks.count > 0

\* C20: useAuthContext() throws when called outside an AuthProvider, and
\* inside one returns the state useAuth returned in that render.
C20_ContextAccess ==
  consumer.outcome # ""
    => IF consumer.inside
         THEN consumer.outcome = "returned" /\ consumer.value = UseAuthResult
         ELSE consumer.outcome = "threw"

C20_Witness ==
  /\ consumer.outcome = "threw"
  /\ ~consumer.inside
  /\ user \in Users

----------------------------------------------------------------------------
(* Properties of fetchWithAuth *)

\* The keys of a request's headers that name the Authorization header:
\* header names are case-insensitive.
AuthorizationKeys(request) ==
  {k \in {"Authorization", "authorization"} : request.options.headers[k] # NoHeader}

\* C21: a call made without a user issues exactly the caller's request, same
\* URL and same options, with no Authorization header added, and asks for no
\* token.
C21_NoUserUnmodified ==
  \A f \in Fetches :
    (fetches[f].pc # "idle" /\ fetches[f].user = Null)
    => /\ fetches[f].tokenRequests = 0
       /\ fetches[f].requests = <<Request(fetches[f].url, fetches[f].options)>>
       /\ AuthorizationKeys(fetches[f].requests[1])
            = AuthorizationKeys(Request(fetches[f].url, fetches[f].options))

C21_Witness ==
  \E f \in Fetches :
    /\ fetches[f].pc = "done"
    /\ fetches[f].user = Null
    /\ fetches[f].options.method = "POST"
    /\ fetches[f].requests = <<Request(fetches[f].url, fetches[f].options)>>

\* C22: every request a call with a user issues carries exactly one
\* Authorization header, whose value is Bearer and a token of the user,
\* whatever headers the caller supplied.
C22_OneAuthorizationHeader ==
  \A f \in Fetches :
    fetches[f].user # Null
    => \A i \in 1..Len(fetches[f].requests) :
         /\ Cardinality(AuthorizationKeys(fetches[f].requests[i])) = 1
         /\ \E idToken \in IdTokens :
              fetches[f].requests[i].options.headers["Authorization"]
                = BearerValue(idToken)

\* C23: a call with a user asks for a token once; it issues a request only
\* with the token obtained; and when the token fetch failed it rejects with
\* that failure and issues no request.
C23_TokenFailurePropagates ==
  \A f \in Fetches :
    fetches[f].user # Null
    => /\ fetches[f].tokenRequests <= 1
       /\ \A i \in 1..Len(fetches[f].requests) :
            \E idToken \in IdTokens :
              fetches[f].requests[i].options.headers["Authorization"]
                = BearerValue(idToken)
       /\ (fetches[f].pc = "done" /\ fetches[f].requests = <<>>)
            => (fetches[f].settled = "rejected" /\ fetches[f].failure \in TokenFailures)
       /\ fetches[f].failure \in TokenFailures
            => (fetches[f].settled = "rejected" /\ fetches[f].requests = <<>>)

C23_Witness ==
  \E f \in Fetches :
    /\ fetches[f].pc = "done"
    /\ fetches[f].user # Null
    /\ fetches[f].settled = "rejected"
    /\ fetches[f].failure = "auth/user-token-expired"
    /\ fetches[f].requests = <<>>
    /\ fetches[f].tokenRequests = 1

----------------------------------------------------------------------------
(* Properties of the session, continued *)

\* C24: a signIn() may begin while another call is in flight, and the user
\* is always the payload of the last onAuthStateChanged callback delivered.
C24_LastCallbackWins ==
  /\ user = callbacks.last
  /\ \A c \in Calls :
       (calls[c].pc = "idle" /\ (c > 1 => calls[c - 1].pc # "idle"))
       => ENABLED SignIn(c)

\* A second signIn() ran to completion while the first was in flight, and
\* two callbacks were delivered.
C24_Witness ==
  /\ NumCalls >= 2
  /\ calls[1].pc = "awaiting" /\ calls[1].kind = "signIn"
  /\ calls[2].pc = "done" /\ calls[2].kind = "signIn"
  /\ calls[2].outcome = "resolved"
  /\ callbacks.count >= 2
  /\ user \in Users
  /\ user = callbacks.last

\* signIn() call c configured the provider: setCustomParameters was called.
Requested(c) ==
  calls[c].kind = "signIn" /\ calls[c].customParameters # NoParams

\* C26: a signIn() under a configuration without a scope list requests the
\* default scope alone and reaches the provider.
C26_DefaultScope ==
  \A c \in Calls :
    (calls[c].kind = "signIn" /\ config.googleAuthOptions.scopes = Undefined)
    => (Requested(c) /\ calls[c].scopes = <<DefaultScope>>)

\* C27: a signIn() passes the provider hd equal to the configured
\* googleAuthDomain; without one, hd is the caller's own or absent.
C27_DomainHint ==
  \A c \in Calls :
    Requested(c)
    => IF config.googleAuthDomain # Absent
         THEN calls[c].customParameters["hd"] = config.googleAuthDomain
         ELSE calls[c].customParameters["hd"]
                = GoogleAuthOptionsOf(config).customParameters["hd"]

C29_OnlyCallbackWritesUser ==
  [][calls' # calls => user' = user]_allVars

C29_Witness ==
  \E c \in Calls :
    /\ calls[c].pc = "done"
    /\ calls[c].kind = "signOut"
    /\ calls[c].outcome = "resolved"
    /\ user \in Users

\* C30: when provider calls settle, every signIn()/signOut() in flight
\* completes; completing sets loading false; and with calls made and none in
\* flight loading is false.
C30_CallsComplete ==
  /\ \A c \in Calls : (calls[c].pc = "awaiting") ~> (calls[c].pc = "done")
  /\ [][\A c \in Calls : (calls[c].pc # "done" /\ calls'[c].pc = "done")
                          => loading' = FALSE]_allVars
  /\ []((calls[1].pc # "idle" /\ \A c \in Calls : calls[c].pc # "awaiting")
          => ~loading)

\* Every call made has completed, one of them on a provider error, with no
\* callback delivered.
C30_Witness ==
  /\ callbacks.count = 0
  /\ \A c \in Calls : calls[c].pc = "done"
  /\ \E c \in Calls : calls[c].outcome = "thrown"
  /\ ~loading

----------------------------------------------------------------------------
(* Properties of the package's modules *)

\* C25: once initAuth has configured an emulator URL on localhost, the auth
\* instance has been connected to the emulator exactly once.
C25_EmulatorConnectedOnce ==
  (imported /\ initCalls > 0 /\ GetConfig.emulatorAuthUrl # Null
     /\ hostname = "localhost")
  => Len(connectCalls) = 1

----------------------------------------------------------------------------
(* Properties of the effect's life cycle *)

\* C31: at most one subscription is active; none was unsubscribed twice;
\* every subscription but the latest has been unsubscribed, and the latest
\* is active exactly while the component is mounted; and after the unmount
\* no callback changes the session.
C31_SubscriptionLifecycle ==
  /\ [](/\ Cardinality(ActiveSubscriptions) <= 1
        /\ \A i \in 1..Len(subscriptions) :
             /\ subscriptions[i].unsubscribes <= 1
             /\ i < Len(subscriptions) => subscriptions[i].unsubscribes = 1
        /\ mounted <=> Len(subscriptions) \in ActiveSubscriptions)
  /\ [][~mounted => UNCHANGED <<user, loading, error, callbacks>>]_allVars

\* Unmounted after two changes of the auth instance and a callback.
C31_Witness ==
  /\ ~mounted
  /\ Len(subscriptions) = MaxAuthChanges + 1
  /\ \A i \in 1..Len(subscriptions) : subscriptions[i].unsubscribes = 1
  /\ callbacks.count > 0

----------------------------------------------------------------------------
(* Properties of overlapping operations *)

\* Some call is awaiting its provider call.
InFlight == \E c \in Calls : calls[c].pc = "awaiting"

\* Call c completed on an error that its catch block surfaces: an error
\* object other than the popup being closed during signIn().
Surfaced(call) ==
  /\ call.outcome = "thrown"
  /\ ~call.thrown.nullish
  /\ ~(call.kind = "signIn" /\ call.thrown.code = "auth/popup-closed-by-user")

\* C32 as stated: when a completion leaves no call in flight, error is
\* non-null only if the call that just completed failed with a surfaced
\* error.
C32_LastCompletionDecides ==
  [][\A c \in Calls :
       (Completes(c) /\ ~InFlight' /\ error' # Null) => Surfaced(calls'[c])]_allVars

\* C32: a successful completion leaves error as it is, and error becomes a
\* message only in the step in which a call fails with a surfaced error,
\* the message being that call's; so the last failure since the latest
\* start or callback decides it.
C32_LastFailureDecides ==
  [][/\ \A c \in Calls :
          (Completes(c) /\ calls'[c].outcome = "resolved") => error' = error
     /\ (error' # error /\ error' # Null)
          => \E c \in Calls :
               /\ calls[c].pc # "done" /\ calls'[c].pc = "done"
               /\ Surfaced(calls'[c])
               /\ error' = Catch(calls'[c].kind, calls'[c].thrown).error]_allVars

\* Two calls overlapped (no callback cleared the error, and the second
\* call's start would have): one failed, one succeeded, and the error stays.
C32_Witness ==
  /\ NumCalls >= 2
  /\ callbacks.count = 0
  /\ calls[1].pc = "done" /\ Surfaced(calls[1])
  /\ calls[2].pc = "done" /\ calls[2].outcome = "resolved"
  /\ error = Catch(calls[1].kind, calls[1].thrown).error
  /\ error # Null

\* C35: a non-null error implies that loading is false.
C35_ErrorImpliesIdle ==
  error # Null => ~loading

C35_Witness ==
  /\ error = ConflictMessage
  /\ ~loading
  /\ \E c \in Calls : FailedWith(c, "signIn", "auth/account-exists-with-different-credential")

\* C36 as stated: loading is true whenever a call is in flight.
C36_LoadingWhileInFlight ==
  InFlight => loading

\* C36: loading is true when a call begins, and while a call is in flight
\* it becomes false only by a provider callback or by the completion of
\* another call.
C36_LoadingUntilCallbackOrCompletion ==
  [][(InFlight' /\ ~loading')
       => \/ callbacks'.count > callbacks.count
          \/ \E c \in Calls : calls[c].pc # "done" /\ calls'[c].pc = "done"
          \/ (~loading /\ calls' = calls)]_allVars

\* A call is in flight and loading is false, after a callback.
C36_Witness ==
  /\ InFlight
  /\ ~loading
  /\ callbacks.count > 0
  /\ \A c \in Calls : calls[c].pc # "done"

----------------------------------------------------------------------------
(* Properties of the gateway, continued *)

\* C33: when verifyIdToken rejects the token of a request, the request fails
\* with the provider's error, isValidAuth is not called, no token is
\* attached to the request and its handler does not run.
C33_ProviderRejectionPropagates ==
  \A r \in Requests :
    ( /\ req[r].pc = "done"
      /\ Logged(r, "verifyIdToken")
      /\ ~VerifyIdToken(req[r].idToken).ok ) =>
      /\ req[r].error = VerifyIdToken(req[r].idToken).error
      /\ ~Logged(r, "isValidAuth")
      /\ ~Logged(r, "attach")
      /\ ~Logged(r, "handler")
      /\ req[r].decodedToken = NoDecodedToken
      /\ req[r].observedEmail = Undefined

\* A token the provider never issued was rejected, with a policy configured.
C33_Witness ==
  \E r \in Requests :
    /\ PolicyConfigured
    /\ req[r].pc = "done"
    /\ req[r].authorization = Bearer \o <<"z">>
    /\ req[r].idToken = <<"z">>
    /\ req[r].error = ProviderError
    /\ req[r].decodedToken = NoDecodedToken

\* C37: every request is dispatched to an instance that is ready.
C37_DispatchAfterReady ==
  [][\A r \in Requests :
       (req[r].target = 0 /\ req'[r].target # 0)
       => instances'[req'[r].target].ready]_vars

\* C38: the token handed to verifyIdToken is the whole of the header after
\* its leading `Bearer `.
C38_TokenIsRestOfHeader ==
  \A r \in Requests :
    Logged(r, "verifyIdToken")
    => req[r].idToken
         = SubSeq(req[r].authorization, Len(Bearer) + 1, Len(req[r].authorization))

----------------------------------------------------------------------------
(* Properties of fetchWithAuth, continued *)

\* C34: a call with a user asks the user for a token exactly once, issues
\* at most one request, and issues it only when that token request
\* resolves; no request goes out with a token of another call.
C34_FreshTokenPerRequest ==
  /\ [](\A f \in Fetches :
          (fetches[f].pc # "idle" /\ HasUser(fetches[f].user)) =>
            /\ fetches[f].tokenRequests = 1
            /\ Len(fetches[f].requests) <= 1
            /\ (fetches[f].pc = "awaiting token" => fetches[f].requests = <<>>))
  /\ [][\A f \in Fetches :
          (HasUser(fetches'[f].user) /\ fetches'[f].requests # fetches[f].requests) =>
            /\ fetches[f].pc = "awaiting token"
            /\ fetches[f].tokenRequests = 1
            /\ fetches[f].requests = <<>>]_allVars

\* Two calls with a user have each asked for a token and sent a request,
\* the second with a token other than the first's.
C34_Witness ==
  /\ \A f \in 1..2 :
       /\ HasUser(fetches[f].user)
       /\ fetches[f].tokenRequests = 1
       /\ Len(fetches[f].requests) = 1
  /\ fetches[1].requests[1].options.headers["Authorization"] = BearerValue("token-1")
  /\ fetches[2].requests[1].options.headers["Authorization"] = BearerValue("token-2")

\* C39: the request of a call with a user has the caller's url, method and
\* body and every header of the caller's other than Authorization, and the
\* caller's options are what they were when the call was made.
C39_RequestKeepsCallerOptions ==
  /\ [](\A f \in Fetches :
          HasUser(fetches[f].user) =>
            \A i \in 1..Len(fetches[f].requests) :
              /\ fetches[f].requests[i].url = fetches[f].url
              /\ fetches[f].requests[i].options.method = fetches[f].options.method
              /\ fetches[f].requests[i].options.body = fetches[f].options.body
              /\ \A k \in HeaderKeys \ {"Authorization"} :
                   fetches[f].requests[i].options.headers[k]
                     = fetches[f].options.headers[k])
  /\ [][\A f \in Fetches :
          fetches[f].pc # "idle" => fetches'[f].options = fetches[f].options]_allVars

----------------------------------------------------------------------------
(* Properties of the url rewrite *)

\* C40: a url that starts with functionsRewritePrefix is rewritten to the
\* url without that leading prefix, every other url is left as it is, and
\* the rewritten url is a non-empty path beginning with `/`.
C40_RewriteRemovesLeadingPrefix ==
  routed.url # Undefined =>
    /\ StartsWith(routed.url, functionsRewritePrefix)
         => routed.rewritten
              = SubSeq(routed.url, Len(functionsRewritePrefix) + 1, Len(routed.url))
    /\ ~StartsWith(routed.url, functionsRewritePrefix) => routed.rewritten = routed.url
    /\ routed.rewritten # EmptyString
    /\ routed.rewritten[1] = "/"

====
